---- MODULE Spec2Model ----
(***************************************************************************)
(* Linsl: a small Lisp interpreter.  The model covers the Tokenizer and    *)
(* the recursive-descent parser of src/src/parsing.rs, the environment of  *)
(* src/src/datatypes.rs, the evaluator of src/src/evaluation.rs and the    *)
(* primitives of src/src/primitives.rs.                                    *)
(*                                                                         *)
(* A Rust String is a sequence of one-character strings: "ab" is           *)
(* <<"a", "b">>.  Every lexeme, symbol name and line of input is such a    *)
(* sequence; only error messages and tags are TLA+ strings.                *)
(***************************************************************************)
EXTENDS Integers, Sequences, FiniteSets, TLC

VARIABLES
    inputs,      \* Tokenizer.inputs: the queue of sources, each the characters still unread
    tokens,      \* Tokenizer.tokens: the buffered (lexeme, position) pairs
    latest_pos,  \* Tokenizer.latest_pos
    added,       \* how many sources add_input has appended so far
    op,          \* the operation performed by the last step
    out,         \* what the last tokenizer or parser operation returned
    env,         \* the root LinslEnv of the interpreter (a chain of one scope)
    form,        \* the top-level expression handed to evaluate by the last step
    result,      \* what that evaluate call returned
    log,         \* the evaluate calls that step made, in call order
    steps,       \* how many top-level expressions have been evaluated
    env0,        \* the environment the last step started from
    b_symbs,     \* bind: the parameter spec
    b_vals,      \* bind: the values
    b_res        \* bind: what the call returned

vars == <<inputs, tokens, latest_pos, added, op, out,
          env, env0, form, result, log, steps, b_symbs, b_vals, b_res>>

tokVars  == <<inputs, tokens, latest_pos, added, out>>
evalVars == <<env, env0, form, result, log, steps>>
bindVars == <<b_symbs, b_vals, b_res>>

(***************************************************************************)
(* Sequences                                                               *)
(***************************************************************************)
Drop(s, n) == SubSeq(s, n + 1, Len(s))

Take(s, n) == SubSeq(s, 1, n)

RECURSIVE Cat(_)
Cat(ss) == IF ss = <<>> THEN <<>> ELSE Head(ss) \o Cat(Tail(ss))

\* The words separated by single spaces and ended by a newline: one line of text.
RECURSIVE Spaced(_)
Spaced(ws) ==
    IF ws = <<>> THEN <<>>
    ELSE IF Len(ws) = 1 THEN Head(ws)
    ELSE Head(ws) \o <<" ">> \o Spaced(Tail(ws))

Line(ws) == Spaced(ws) \o <<"\n">>

(***************************************************************************)
(* LinslExpr, LinslErr, LinslRes                                           *)
(***************************************************************************)
Bool(b) == [t |-> "Bool", b |-> b]

\* Num is f64; the model holds the exact rationals n/d (d > 0, lowest terms).
Ratio(n, d) == [t |-> "Number", n |-> n, d |-> d]

Number(n) == Ratio(n, 1)

Symbol(s) == [t |-> "Symbol", s |-> s]

List(xs) == [t |-> "List", xs |-> xs]

Closure(ps, bd) == [t |-> "Closure", ps |-> ps, bd |-> bd]

Macro(ps, bd) == [t |-> "Macro", ps |-> ps, bd |-> bd]

Primitive(f) == [t |-> "Primitive", f |-> f]

Ok(v) == [ok |-> TRUE, v |-> v]

SyntaxError(msg, pos) == [ok |-> FALSE, err |-> "SyntaxError", msg |-> msg, pos |-> pos]

InternalError(msg) == [ok |-> FALSE, err |-> "InternalError", msg |-> msg]

\* A panic (index arithmetic, stack exhaustion): the process aborts, no LinslRes.
Abort(msg) == [ok |-> FALSE, err |-> "Abort", msg |-> msg]

\* LinslErr::UnbalancedParens
UnbalancedParens(opening, closing) ==
    [ok |-> FALSE, err |-> "UnbalancedParens", opening |-> opening, closing |-> closing]

Some(v) == [some |-> TRUE, v |-> v]

None == [some |-> FALSE]

(***************************************************************************)
(* Lexemes                                                                 *)
(***************************************************************************)
LP == <<"(">>
RP == <<")">>
QUOTE_T == <<"'">>
\* The backquote character (U+0060) cannot be written inside a TLA+ string; it is "BQ".
BQ == "BQ"
QUASI_T == <<BQ>>
COMMA_T == <<",">>
SPLICE_T == <<",", "@">>

s_define == <<"d", "e", "f", "i", "n", "e">>
s_if     == <<"i", "f">>
s_lambda == <<"l", "a", "m", "b", "d", "a">>
s_macro  == <<"m", "a", "c", "r", "o">>
s_quote  == <<"q", "u", "o", "t", "e">>
s_append == <<"a", "p", "p", "e", "n", "d">>
s_list   == <<"l", "i", "s", "t">>
s_add    == <<"+">>
s_mul    == <<"*">>
s_neg    == <<"n", "e", "g">>
s_inv    == <<"i", "n", "v">>
s_eq     == <<"=">>
s_gr     == <<">">>
s_car    == <<"c", "a", "r">>
s_cdr    == <<"c", "d", "r">>
s_empty  == <<"e", "m", "p", "t", "y", "?">>
s_eqt    == <<"e", "q", "t", "?">>
s_true   == <<"#", "t">>
s_false  == <<"#", "f">>

(***************************************************************************)
(* Tokenizer (src/src/parsing.rs).  A tokenizer value tz is the record     *)
(* [inputs, tokens, latest_pos].  The sources are in-memory readers, as in *)
(* the tests of parsing.rs, so no read fails and the InternalError that    *)
(* wraps an I/O error is not produced.                                     *)
(***************************************************************************)
IsSpace(c) == c \in {" ", "\t", "\n", "\r"}

Delims == {"(", "'", BQ, ",", ")"}

\* Mutant of IsAtomChar: a semicolon inside an atom does not end it.
IsAtomCharSemi(c) == ~IsSpace(c) /\ c \notin Delims

IsAtomChar(c) == ~IsSpace(c) /\ c \notin Delims /\ c # ";"

\* \s* of the regex
RECURSIVE SkipSpace(_)
SkipSpace(s) == IF s # <<>> /\ IsSpace(Head(s)) THEN SkipSpace(Tail(s)) ELSE s

\* [^\s('BQ,;)]* of the regex: the length of the maximal run
RECURSIVE AtomLen(_)
AtomLen(s) == IF s # <<>> /\ IsAtomChar(Head(s)) THEN 1 + AtomLen(Tail(s)) ELSE 0

\* .* of the regex: everything up to a newline
RECURSIVE DotStarLen(_)
DotStarLen(s) == IF s # <<>> /\ Head(s) # "\n" THEN 1 + DotStarLen(Tail(s)) ELSE 0

\* The first match of \s*(,@|[('BQ,)]|;.*|[^\s('BQ,;)]*)(.*) in rest, which starts at
\* offset 0; the alternatives are tried in order.  A line holds no newline (get_line
\* pops it), so the match spans the line and captures_iter yields no second match.
RegexMatch(rest) ==
    LET s == SkipSpace(rest)
        n == IF Len(s) >= 2 /\ Take(s, 2) = SPLICE_T THEN 2
             ELSE IF s # <<>> /\ Head(s) \in Delims THEN 1
             ELSE IF s # <<>> /\ Head(s) = ";" THEN DotStarLen(s)
             ELSE AtomLen(s)
        after == Drop(s, n)
    IN  [result |-> Take(s, n), unmatched |-> Take(after, DotStarLen(after))]

\* BufRead::read_line: the characters through the first newline, or all of them.
ReadLine(src) ==
    LET n == IF DotStarLen(src) < Len(src) THEN DotStarLen(src) + 1 ELSE Len(src)
    IN  [line |-> Take(src, n), rest |-> Drop(src, n)]

\* String::pop
Pop(s) == IF s = <<>> THEN s ELSE Take(s, Len(s) - 1)

RECURSIVE get_line(_, _)
get_line(ins, last_line) ==
    IF ins = <<>> THEN [inputs |-> ins, line |-> None]
    ELSE IF Head(ins) = <<>> THEN get_line(Tail(ins), 0)
    ELSE LET r == ReadLine(Head(ins))
         IN  [inputs |-> <<r.rest>> \o Tail(ins),
              line   |-> Some(<<Pop(r.line), IF last_line = 0 THEN 0 ELSE last_line + 1>>)]

\* The loop of tokenize_line over one line: the (lexeme, position) pairs pushed.
RECURSIVE ScanLine(_, _, _)
ScanLine(rest, line_num, col) ==
    LET m    == RegexMatch(rest)
        keep == m.result # <<>> /\ Head(m.result) # ";"
        here == IF keep THEN << <<m.result, <<line_num, col>> >> >> ELSE <<>>
        col2 == IF keep THEN col + Len(m.result) + 1 ELSE col
    IN  IF m.unmatched = <<>> THEN here
        ELSE here \o ScanLine(m.unmatched, line_num, col2)

tokenize_line(tz) ==
    LET g == get_line(tz.inputs, tz.latest_pos[1])
    IN  IF ~g.line.some
        THEN [tz |-> [tz EXCEPT !.inputs = g.inputs], ret |-> None]
        ELSE [tz  |-> [tz EXCEPT !.inputs = g.inputs,
                                 !.tokens = @ \o ScanLine(g.line.v[1], g.line.v[2], 0)],
              ret |-> Some(<<>>)]

\* Tokenizer::new
new_tokenizer(ins) ==
    tokenize_line([inputs |-> ins, tokens |-> <<>>, latest_pos |-> <<0, 0>>]).tz

\* Mutant of add_input: the source is put in front of the queued ones.
add_input_front(tz, input) == [tz EXCEPT !.inputs = <<input>> \o @]

add_input(tz, input) == [tz EXCEPT !.inputs = Append(@, input)]

\* pop_front of tz.tokens with latest_pos updated
PopToken(tz) ==
    [tz  |-> [tz EXCEPT !.tokens = Tail(@), !.latest_pos = Head(tz.tokens)[2]],
     tok |-> Some(Head(tz.tokens)[1])]

next_token(tz) ==
    IF tz.tokens # <<>> THEN PopToken(tz)
    ELSE LET t == tokenize_line(tz).tz
         IN  IF t.tokens # <<>> THEN PopToken(t) ELSE [tz |-> t, tok |-> None]

peek(tz) ==
    IF Len(tz.tokens) > 0 THEN [tz |-> tz, tok |-> Some(Head(tz.tokens)[1])]
    ELSE LET t == tokenize_line(tz).tz
         IN  IF Len(t.tokens) > 0 THEN [tz |-> t, tok |-> Some(Head(t.tokens)[1])]
             ELSE [tz |-> t, tok |-> None]

get_pos(tz) == tz.latest_pos

(***************************************************************************)
(* Parser (src/src/parsing.rs).  Each parse function returns the tokenizer *)
(* it leaves behind and its Result.                                        *)
(***************************************************************************)
\* str::matches(c).count()
RECURSIVE Matches(_, _)
Matches(string, c) ==
    IF string = <<>> THEN 0
    ELSE (IF Head(string) = c THEN 1 ELSE 0) + Matches(Tail(string), c)

\* check_parens: no function of the crate calls it
check_parens(string) ==
    IF Matches(string, "(") # Matches(string, ")")
    THEN Some(<<Matches(string, "("), Matches(string, ")")>>)
    ELSE None

Digits == {"0", "1", "2", "3", "4", "5", "6", "7", "8", "9"}

DigitValue(c) ==
    CASE c = "0" -> 0 [] c = "1" -> 1 [] c = "2" -> 2 [] c = "3" -> 3 [] c = "4" -> 4
      [] c = "5" -> 5 [] c = "6" -> 6 [] c = "7" -> 7 [] c = "8" -> 8 [] c = "9" -> 9

RECURSIVE DecimalValue(_)
DecimalValue(ds) ==
    IF ds = <<>> THEN 0 ELSE 10 * DecimalValue(Pop(ds)) + DigitValue(ds[Len(ds)])

\* str::parse::<f64> on the lexemes of the model: an optional sign and decimal digits.
\* (The inputs of the model hold no ".", no exponent and none of inf, nan, infinity.)
ParseNum(atom) ==
    LET signed == atom # <<>> /\ Head(atom) \in {"+", "-"}
        ds     == IF signed THEN Tail(atom) ELSE atom
    IN  IF ds # <<>> /\ \A i \in 1..Len(ds) : ds[i] \in Digits
        THEN Some(IF signed /\ Head(atom) = "-" THEN 0 - DecimalValue(ds) ELSE DecimalValue(ds))
        ELSE None

parse_atom(atom) ==
    IF atom = s_true THEN Bool(TRUE)
    ELSE IF atom = s_false THEN Bool(FALSE)
    ELSE IF ParseNum(atom).some THEN Number(ParseNum(atom).v)
    ELSE Symbol(atom)

RECURSIVE parse(_)
RECURSIVE parse_list_loop(_, _, _)
RECURSIVE parse_quasiquote_elem_in_list(_)

\* parser(tokenizer): the function pointer handed to parse_list
CallParser(parser, tz) ==
    IF parser = "parse" THEN parse(tz) ELSE parse_quasiquote_elem_in_list(tz)

\* parse_list, an element parsed (e): push it and loop, or return its error
ListPush(e, parser, list_elems) ==
    IF ~e.res.ok THEN e
    ELSE parse_list_loop(e.tz, parser, Append(list_elems, e.res.v))

\* parse_list, the next token peeked (p)
ListPeeked(p, parser, list_elems) ==
    IF ~p.tok.some
    THEN [tz |-> p.tz, res |-> SyntaxError("Found only opening parentheses.", get_pos(p.tz))]
    ELSE IF p.tok.v = RP
    THEN [tz |-> next_token(p.tz).tz, res |-> Ok(List(list_elems))]
    ELSE ListPush(CallParser(parser, p.tz), parser, list_elems)

\* the loop of parse_list
parse_list_loop(tz, parser, list_elems) == ListPeeked(peek(tz), parser, list_elems)

parse_list(tz, parser) == parse_list_loop(tz, parser, <<>>)

\* parse_quote, the quoted expression parsed (e)
QuoteOf(e) ==
    IF e.res.ok THEN [tz |-> e.tz, res |-> Ok(List(<<Symbol(s_quote), e.res.v>>))]
    ELSE e

parse_quote(tz) == QuoteOf(parse(tz))

\* parse_quasiquote, the list after the opening parenthesis parsed (l)
AppendOf(l) ==
    IF l.res.ok THEN [tz |-> l.tz, res |-> Ok(List(<<Symbol(s_append)>> \o l.res.v.xs))]
    ELSE l

\* parse_quasiquote, its first token taken (n)
QuasiquoteToken(n) ==
    IF ~n.tok.some
    THEN [tz |-> n.tz, res |-> SyntaxError("Unexpected EOF.", get_pos(n.tz))]
    ELSE CASE n.tok.v = COMMA_T  -> parse(n.tz)
           [] n.tok.v = SPLICE_T ->
                [tz  |-> n.tz,
                 res |-> SyntaxError("Cannot have ,@ at top level of BQ", get_pos(n.tz))]
           [] n.tok.v = LP       ->
                AppendOf(parse_list(n.tz, "parse_quasiquote_elem_in_list"))
           [] OTHER              -> parse_quote(n.tz)

parse_quasiquote(tz) == QuasiquoteToken(next_token(tz))

\* parse, its token taken (n)
ParseToken(n) ==
    IF ~n.tok.some
    THEN [tz |-> n.tz, res |-> InternalError("Unexpected EOF.")]
    ELSE CASE n.tok.v = QUOTE_T -> parse_quote(n.tz)
           [] n.tok.v = QUASI_T -> parse_quasiquote(n.tz)
           [] n.tok.v = LP      -> parse_list(n.tz, "parse")
           [] n.tok.v = RP      ->
                [tz  |-> n.tz,
                 res |-> SyntaxError("Unexpected closing parenthesis.", get_pos(n.tz))]
           [] OTHER             -> [tz |-> n.tz, res |-> Ok(parse_atom(n.tok.v))]

parse(tz) == ParseToken(next_token(tz))

\* parse_quasiquote_elem_in_list, its token taken (token) and the expression after
\* it parsed (e)
ElemOf(token, e) ==
    IF ~e.res.ok THEN e
    ELSE CASE token = COMMA_T  ->
                [tz |-> e.tz, res |-> Ok(List(<<Symbol(s_list), e.res.v>>))]
           [] token = SPLICE_T -> e
           [] OTHER            ->
                [tz  |-> e.tz,
                 res |-> Ok(List(<<Symbol(s_list), List(<<Symbol(s_quote), e.res.v>>)>>))]

\* parse_quasiquote_elem_in_list, its token taken (n)
ElemToken(n) ==
    IF ~n.tok.some
    THEN [tz |-> n.tz, res |-> SyntaxError("Unexpected EOF.", get_pos(n.tz))]
    ELSE ElemOf(n.tok.v, parse(n.tz))

parse_quasiquote_elem_in_list(tz) == ElemToken(next_token(tz))

(***************************************************************************)
(* Numbers.  Num = f64 (src/src/datatypes.rs:9).  The model computes with  *)
(* exact rationals, which agrees with f64 on the small values it reaches.  *)
(***************************************************************************)
Abs(x) == IF x < 0 THEN 0 - x ELSE x

RECURSIVE Gcd(_, _)
Gcd(a, b) == IF b = 0 THEN a ELSE Gcd(b, a % b)

\* n/d in lowest terms with a positive denominator (d # 0)
Norm(n, d) ==
    LET g == Gcd(Abs(n), Abs(d))
        s == IF d < 0 THEN 0 - 1 ELSE 1
    IN  Ratio((s * n) \div g, (s * d) \div g)

NumAdd(x, y) == Norm(x.n * y.d + y.n * x.d, x.d * y.d)

NumMul(x, y) == Norm(x.n * y.n, x.d * y.d)

NumNeg(x) == Ratio(0 - x.n, x.d)

NumGt(x, y) == x.n * y.d > y.n * x.d

(***************************************************************************)
(* Typed views of expressions (src/src/parsing.rs)                         *)
(***************************************************************************)
NoPos == <<0, 0>>

parse_num(expr) ==
    IF expr.t = "Number" THEN Ok(expr)
    ELSE SyntaxError("Expected numbers", NoPos)

\* collect() over parse_num: the numbers, or the first error
RECURSIVE parse_list_of_nums(_)
parse_list_of_nums(nums) ==
    IF nums = <<>> THEN Ok(<<>>)
    ELSE IF ~parse_num(Head(nums)).ok THEN parse_num(Head(nums))
    ELSE LET r == parse_list_of_nums(Tail(nums))
         IN  IF r.ok THEN Ok(<<Head(nums)>> \o r.v) ELSE r

parse_list_of_symbols(symbs) ==
    IF symbs.t # "List" THEN SyntaxError("Expected list of symbols", NoPos)
    ELSE IF \E i \in 1..Len(symbs.xs) : symbs.xs[i].t # "Symbol"
    THEN SyntaxError("Expected symbol", NoPos)
    ELSE Ok([i \in 1..Len(symbs.xs) |-> symbs.xs[i].s])

(***************************************************************************)
(* Primitives (src/src/primitives.rs)                                      *)
(***************************************************************************)
RECURSIVE Sum(_, _)
Sum(acc, xs) == IF xs = <<>> THEN acc ELSE Sum(NumAdd(acc, Head(xs)), Tail(xs))

RECURSIVE Product(_, _)
Product(acc, xs) == IF xs = <<>> THEN acc ELSE Product(NumMul(acc, Head(xs)), Tail(xs))

add(exprs) ==
    LET ns == parse_list_of_nums(exprs)
    IN  IF ns.ok THEN Ok(Sum(Number(0), ns.v)) ELSE ns

mul(exprs) ==
    LET ns == parse_list_of_nums(exprs)
    IN  IF ns.ok THEN Ok(Product(Number(1), ns.v)) ELSE ns

neg(expr) ==
    IF expr = <<>> THEN Ok(Number(0))
    ELSE IF parse_num(expr[1]).ok THEN Ok(NumNeg(expr[1]))
    ELSE parse_num(expr[1])

inv(expr) ==
    IF expr = <<>> THEN SyntaxError("No number to invert!", NoPos)
    ELSE IF ~parse_num(expr[1]).ok THEN parse_num(expr[1])
    ELSE IF expr[1].n = 0 THEN SyntaxError("Cannot invert 0", NoPos)
    ELSE Ok(Norm(expr[1].d, expr[1].n))

append(exprs) ==
    IF exprs = <<>>
    THEN SyntaxError("append needs at least one argument, none were supplied", NoPos)
    ELSE IF \E i \in 1..Len(exprs) : exprs[i].t # "List"
    THEN SyntaxError("append must be supplied with list(s)", NoPos)
    ELSE Ok(List(Cat([i \in 1..Len(exprs) |-> exprs[i].xs])))

car(expr) ==
    IF Len(expr) # 1 THEN SyntaxError("Expected 1 argument", NoPos)
    ELSE IF expr[1].t # "List" THEN SyntaxError("Can only find car of lists", NoPos)
    ELSE IF expr[1].xs = <<>> THEN Ok(List(<<>>))
    ELSE Ok(Head(expr[1].xs))

cdr(expr) ==
    IF Len(expr) # 1 THEN SyntaxError("Expected 1 argument", NoPos)
    ELSE IF expr[1].t # "List" THEN SyntaxError("Can only find cdr of lists.", NoPos)
    ELSE IF expr[1].xs = <<>> THEN Ok(List(<<>>))
    ELSE Ok(List(Tail(expr[1].xs)))

eq(exprs) ==
    IF Len(exprs) # 2 THEN SyntaxError("Expected 2 arguments to compare", NoPos)
    ELSE IF exprs[1].t = exprs[2].t /\ exprs[1].t \in {"Bool", "Number", "Symbol"}
    THEN Ok(Bool(exprs[1] = exprs[2]))
    ELSE SyntaxError("Can only compare expressions the same types", NoPos)

gr(exprs) ==
    IF Len(exprs) # 2 THEN InternalError("Expected two numbers two compare")
    ELSE IF exprs[1].t = "Number" /\ exprs[2].t = "Number"
    THEN Ok(Bool(NumGt(exprs[1], exprs[2])))
    ELSE SyntaxError("Can only compare numbers with >", NoPos)

list(exprs) == Ok(List(exprs))

is_nil(expr) ==
    IF Len(expr) # 1 THEN SyntaxError("Expected 1 argument", NoPos)
    ELSE Ok(Bool(expr[1].t = "List" /\ expr[1].xs = <<>>))

eq_types(exprs) ==
    IF Len(exprs) # 2 THEN SyntaxError("Expected 2 arguments", NoPos)
    ELSE Ok(Bool(exprs[1].t = exprs[2].t))

\* f(&params): the call through the function pointer a Primitive holds
CallPrimitive(f, args) ==
    CASE f = "add"      -> add(args)
      [] f = "mul"      -> mul(args)
      [] f = "neg"      -> neg(args)
      [] f = "inv"      -> inv(args)
      [] f = "append"   -> append(args)
      [] f = "car"      -> car(args)
      [] f = "cdr"      -> cdr(args)
      [] f = "eq"       -> eq(args)
      [] f = "gr"       -> gr(args)
      [] f = "list"     -> list(args)
      [] f = "is_nil"   -> is_nil(args)
      [] f = "eq_types" -> eq_types(args)

(***************************************************************************)
(* LinslEnv (src/src/datatypes.rs).  An environment is the chain of its    *)
(* scopes, the root first and the current scope (inner) last; a scope is a *)
(* function from the names it binds to their values.                       *)
(***************************************************************************)
EmptyScope == <<>>

\* Mutant of Insert: an existing binding is kept (entry().or_insert).
InsertIfAbsent(m, k, v) ==
    [x \in (DOMAIN m) \cup {k} |-> IF x \in DOMAIN m THEN m[x] ELSE v]

\* HashMap::insert
Insert(m, k, v) == [x \in (DOMAIN m) \cup {k} |-> IF x = k THEN v ELSE m[x]]

\* Mutant of InsertInner: the binding is written into the root scope.
InsertRoot(chain, k, v) == [chain EXCEPT ![1] = Insert(@, k, v)]

\* env.inner.insert(k, v)
InsertInner(chain, k, v) == [chain EXCEPT ![Len(chain)] = Insert(@, k, v)]

\* LinslEnv::default
LinslEnv_default ==
    << Insert(Insert(Insert(Insert(Insert(Insert(Insert(Insert(EmptyScope,
        s_add, Primitive("add")),
        s_neg, Primitive("neg")),
        s_mul, Primitive("mul")),
        s_inv, Primitive("inv")),
        s_eq,  Primitive("eq")),
        s_gr,  Primitive("gr")),
        s_car, Primitive("car")),
        s_cdr, Primitive("cdr")) >>

\* LinslEnv::new(outer)
LinslEnv_new(outer) == Append(outer, EmptyScope)

\* the scopes a child environment borrows: its outer chain
Outer(chain) == SubSeq(chain, 1, Len(chain) - 1)

\* Mutant of env_get: the scopes are searched from the root inwards.
env_get_root_first(s, chain) ==
    IF \A i \in 1..Len(chain) : s \notin DOMAIN chain[i] THEN None
    ELSE Some(chain[CHOOSE i \in 1..Len(chain) :
                       /\ s \in DOMAIN chain[i]
                       /\ \A j \in 1..(i - 1) : s \notin DOMAIN chain[j]][s])

RECURSIVE env_get(_, _)
env_get(s, chain) ==
    IF chain = <<>> THEN None
    ELSE IF s \in DOMAIN chain[Len(chain)] THEN Some(chain[Len(chain)][s])
    ELSE env_get(s, Outer(chain))


(***************************************************************************)
(* Evaluator (src/src/evaluation.rs).  evaluate and its helpers return     *)
(* [res, env, log]: the LinslRes, the environment env as the call leaves   *)
(* it, and the evaluate calls made, each logged on entry with its          *)
(* expression, its pos argument, its nesting level under the top-level     *)
(* call and the number of scopes of the environment it was given.          *)
(***************************************************************************)
MaxDepth == 12

\* the zip loop of bind: env.inner.insert(k, v) for the pairs of symbs and vals
RECURSIVE BindZip(_, _, _)
BindZip(chain, symbs_vec, vals_vec) ==
    IF symbs_vec = <<>> \/ vals_vec = <<>> THEN chain
    ELSE BindZip(InsertInner(chain, Head(symbs_vec), Head(vals_vec)),
                 Tail(symbs_vec), Tail(vals_vec))

\* Mutant of BindRest: the split is made after the last parameter's own value.
BindRestAfter(vals_vec, i) == SubSeq(vals_vec, i + 1, Len(vals_vec))

\* vals_vec.split_at(i - 1).1
BindRest(vals_vec, i) == SubSeq(vals_vec, i, Len(vals_vec))

\* Mutant of bind: surplus values are dropped, the last symbol absorbs nothing.
BindNoRest(symbs, vals, chain) ==
    LET ps == parse_list_of_symbols(symbs)
    IN  IF ~ps.ok THEN ps
        ELSE IF vals.t # "List" THEN SyntaxError("Expected list of values.", NoPos)
        ELSE IF Len(ps.v) > Len(vals.xs)
        THEN SyntaxError("cannot have more symbols than values.", NoPos)
        ELSE Ok(BindZip(chain, ps.v, vals.xs))

\* bind(symbs, vals, env): Ok(v) holds the environment returned
bind(symbs, vals, chain) ==
    LET ps == parse_list_of_symbols(symbs)
    IN  IF ~ps.ok THEN ps
        ELSE IF vals.t # "List" THEN SyntaxError("Expected list of values.", NoPos)
        ELSE IF Len(ps.v) > Len(vals.xs)
        THEN SyntaxError("cannot have more symbols than values.", NoPos)
        ELSE LET zipped == BindZip(chain, ps.v, vals.xs)
                 i      == Len(ps.v)
             IN  IF Len(ps.v) < Len(vals.xs)
                 THEN IF i = 0
                      THEN Abort("i - 1: attempt to subtract with overflow")
                      ELSE Ok(InsertInner(zipped, ps.v[i], List(BindRest(vals.xs, i))))
                 ELSE Ok(zipped)

get_params_and_body(exprs) ==
    IF Len(exprs) # 2
    THEN SyntaxError("Lambda must be given two expressions", NoPos)
    ELSE Ok(<<exprs[1], exprs[2]>>)

evaluate_lambda(expr) ==
    LET pb == get_params_and_body(expr)
    IN  IF pb.ok THEN Ok(Closure(pb.v[1], pb.v[2])) ELSE pb

evaluate_macro(exprs) ==
    LET pb == get_params_and_body(exprs)
    IN  IF pb.ok THEN Ok(Macro(pb.v[1], pb.v[2])) ELSE pb

\* the names evaluate_built_in_form matches
BuiltInForms == {s_define, s_if, s_lambda, s_macro, s_quote}

\* Mutant of IsBuiltInForm: a bound name is no longer a special form.
IsBuiltInFormUnlessBound(head, chain) ==
    head.t = "Symbol" /\ head.s \in BuiltInForms /\ ~env_get(head.s, chain).some

\* whether evaluate_built_in_form returns Some for this head
IsBuiltInForm(head, chain) == head.t = "Symbol" /\ head.s \in BuiltInForms

\* Mutant of IfBranch: the branches are exchanged.
IfBranchSwapped(b) == IF b THEN <<3, 3>> ELSE <<2, 2>>

\* the branch evaluate_if selects: the index in exprs and the pos argument
IfBranch(b) == IF b THEN <<2, 2>> ELSE <<3, 3>>

\* the values a Macro's parameters are bound to
MacroArgs(param_forms) == List(param_forms)

LogEntry(expr, pos, chain, lvl) ==
    [e |-> expr, pos |-> pos, lvl |-> lvl, scope |-> Len(chain)]

RECURSIVE evaluate(_, _, _, _)
RECURSIVE evaluate_forms(_, _, _, _)

\* a result r with the log lg of the calls that came before it
After(lg, r) == [r EXCEPT !.log = lg \o @]

\* a result that made no evaluate call and left env alone
Plain(res, chain) == [res |-> res, env |-> chain, log |-> <<>>]

\* evaluate_define, the value form evaluated (val)
DefineValue(name_form, val) ==
    IF ~val.res.ok THEN val
    ELSE [res |-> Ok(name_form),
          env |-> InsertInner(val.env, name_form.s, val.res.v),
          log |-> val.log]

evaluate_define(exprs, chain, lvl) ==
    IF Len(exprs) # 2
    THEN Plain(SyntaxError("define must have two forms", NoPos), chain)
    ELSE IF exprs[1].t # "Symbol"
    THEN Plain(SyntaxError("First define form must be a symbol", NoPos), chain)
    ELSE DefineValue(exprs[1], evaluate(exprs[2], 2, chain, lvl + 1))

\* evaluate_if, the test form evaluated (test)
IfTest(exprs, test, lvl) ==
    IF ~test.res.ok THEN test
    ELSE IF test.res.v.t # "Bool"
    THEN [res |-> SyntaxError("Test form must evaluate to bool", NoPos),
          env |-> test.env, log |-> test.log]
    ELSE After(test.log,
               evaluate(exprs[IfBranch(test.res.v.b)[1]], IfBranch(test.res.v.b)[2],
                        test.env, lvl + 1))

evaluate_if(exprs, chain, lvl) ==
    IF Len(exprs) # 3
    THEN Plain(SyntaxError("Expected 3 arguments to if", NoPos), chain)
    ELSE IfTest(exprs, evaluate(exprs[1], 1, chain, lvl + 1), lvl)

evaluate_built_in_form(expr, param_forms, chain, lvl) ==
    CASE expr.s = s_define -> evaluate_define(param_forms, chain, lvl)
      [] expr.s = s_if     -> evaluate_if(param_forms, chain, lvl)
      [] expr.s = s_lambda -> Plain(evaluate_lambda(param_forms), chain)
      [] expr.s = s_macro  -> Plain(evaluate_macro(param_forms), chain)
      [] expr.s = s_quote  ->
            Plain(IF param_forms # <<>> THEN Ok(param_forms[1])
                  ELSE SyntaxError("Found no expression to quote.", NoPos),
                  chain)

\* collect(): the value of the first form (x) before the values of the others (r)
FormsJoin(x, r) ==
    [res |-> IF r.res.ok THEN Ok(<<x.res.v>> \o r.res.v) ELSE r.res,
     env |-> r.env,
     log |-> x.log \o r.log]

\* Mutant of FormsRest: the forms after a failing one are evaluated all the same.
FormsRestKeepGoing(x, rest, first, lvl) ==
    IF x.res.ok THEN FormsJoin(x, evaluate_forms(rest, first + 1, x.env, lvl))
    ELSE [res |-> x.res,
          env |-> evaluate_forms(rest, first + 1, x.env, lvl).env,
          log |-> x.log \o evaluate_forms(rest, first + 1, x.env, lvl).log]

\* the first form evaluated (x): stop at its error, or go on with the others
FormsRest(x, rest, first, lvl) ==
    IF ~x.res.ok THEN x
    ELSE FormsJoin(x, evaluate_forms(rest, first + 1, x.env, lvl))

\* forms.iter().zip(first..).map(evaluate).collect(): Ok(v) holds the sequence of
\* values; at lvl, the level of the calls it makes
evaluate_forms(forms, first, chain, lvl) ==
    IF forms = <<>> THEN Plain(Ok(<<>>), chain)
    ELSE FormsRest(evaluate(Head(forms), first, chain, lvl), Tail(forms), first, lvl)

\* the Closure arm, the body evaluated (r): the child scope is dropped
ClosureReturn(lg, r) == [res |-> r.res, env |-> Outer(r.env), log |-> lg \o r.log]

\* the Closure arm, the parameters bound (lambda_env)
ClosureBody(body, h, evals, lambda_env, lvl) ==
    IF ~lambda_env.ok
    THEN [res |-> lambda_env, env |-> evals.env, log |-> h.log \o evals.log]
    ELSE ClosureReturn(h.log \o evals.log, evaluate(body, 2, lambda_env.v, lvl + 1))

\* Mutant of ClosureBind: the body runs in a child of the global scope, as if the
\* closure had captured the environment of a lambda evaluated at the top level.
ClosureBindGlobal(param, body, h, evals, lvl) ==
    IF ~evals.res.ok THEN After(h.log, evals)
    ELSE [ClosureBody(body, h, evals,
                      bind(param, List(evals.res.v), LinslEnv_new(<<evals.env[1]>>)), lvl)
            EXCEPT !.env = evals.env]

\* the Closure arm, the argument forms evaluated (evals)
ClosureBind(param, body, h, evals, lvl) ==
    IF ~evals.res.ok THEN After(h.log, evals)
    ELSE ClosureBody(body, h, evals,
                     bind(param, List(evals.res.v), LinslEnv_new(evals.env)), lvl)

\* the Closure arm of evaluate_list, the head evaluated (h)
ApplyClosure(param, body, param_forms, h, lvl) ==
    ClosureBind(param, body, h, evaluate_forms(param_forms, 0, h.env, lvl + 1), lvl)

\* the Primitive arm, the argument forms evaluated (params_eval)
PrimitiveCall(f, h, params_eval) ==
    IF ~params_eval.res.ok THEN After(h.log, params_eval)
    ELSE [res |-> CallPrimitive(f, params_eval.res.v),
          env |-> params_eval.env,
          log |-> h.log \o params_eval.log]

\* the Primitive arm of evaluate_list, the head evaluated (h)
ApplyPrimitive(f, param_forms, h, lvl) ==
    PrimitiveCall(f, h, evaluate_forms(param_forms, 1, h.env, lvl + 1))

\* the Macro arm, the body evaluated (expansion): the expansion runs in env itself
MacroExpand(h, expansion, lvl) ==
    IF ~expansion.res.ok
    THEN [res |-> expansion.res, env |-> h.env, log |-> h.log \o expansion.log]
    ELSE After(h.log \o expansion.log, evaluate(expansion.res.v, 1, h.env, lvl + 1))

\* the Macro arm, the parameters bound (macro_env) in a child of a clone of env
MacroBody(body, h, macro_env, lvl) ==
    IF ~macro_env.ok THEN [res |-> macro_env, env |-> h.env, log |-> h.log]
    ELSE MacroExpand(h, evaluate(body, 2, macro_env.v, lvl + 1), lvl)

\* Mutant of ApplyMacro: the argument forms are evaluated before they are bound.
MacroEagerBind(param, body, h, evals, lvl) ==
    IF ~evals.res.ok THEN After(h.log, evals)
    ELSE MacroBody(body, [h EXCEPT !.env = evals.env, !.log = h.log \o evals.log],
                   bind(param, List(evals.res.v), LinslEnv_new(evals.env)), lvl)

ApplyMacroEager(param, body, param_forms, h, lvl) ==
    MacroEagerBind(param, body, h, evaluate_forms(param_forms, 0, h.env, lvl + 1), lvl)

\* the Macro arm of evaluate_list, the head evaluated (h)
ApplyMacro(param, body, param_forms, h, lvl) ==
    MacroBody(body, h, bind(param, MacroArgs(param_forms), LinslEnv_new(h.env)), lvl)

\* evaluate_list, the head evaluated (h)
Apply(h, param_forms, lvl) ==
    IF ~h.res.ok THEN h
    ELSE CASE h.res.v.t = "Closure" ->
                ApplyClosure(h.res.v.ps, h.res.v.bd, param_forms, h, lvl)
           [] h.res.v.t = "Primitive" ->
                ApplyPrimitive(h.res.v.f, param_forms, h, lvl)
           [] h.res.v.t = "Macro" ->
                ApplyMacro(h.res.v.ps, h.res.v.bd, param_forms, h, lvl)
           [] OTHER ->
                [res |-> SyntaxError("Expected the head of list to be a primitive", NoPos),
                 env |-> h.env, log |-> h.log]

evaluate_list(exprs, chain, lvl) ==
    IF exprs = <<>>
    THEN Plain(SyntaxError("Expected non-empty list", NoPos), chain)
    ELSE IF IsBuiltInForm(Head(exprs), chain)
    THEN evaluate_built_in_form(Head(exprs), Tail(exprs), chain, lvl)
    ELSE Apply(evaluate(Head(exprs), 0, chain, lvl + 1), Tail(exprs), lvl)

\* the Symbol arm of evaluate
Lookup(found) ==
    IF found.some THEN Ok(found.v) ELSE SyntaxError("Undefined symbol", NoPos)

\* Mutant of EvaluateArms: a Closure, Macro or Primitive evaluates to itself.
EvaluateArmsSelf(expr, chain, lvl) ==
    CASE expr.t = "List"   -> evaluate_list(expr.xs, chain, lvl)
      [] expr.t = "Symbol" -> Plain(Lookup(env_get(expr.s, chain)), chain)
      [] OTHER             -> Plain(Ok(expr), chain)

\* the arms of evaluate
EvaluateArms(expr, chain, lvl) ==
    CASE expr.t \in {"Bool", "Number"} -> Plain(Ok(expr), chain)
      [] expr.t = "List"   -> evaluate_list(expr.xs, chain, lvl)
      [] expr.t = "Symbol" -> Plain(Lookup(env_get(expr.s, chain)), chain)
      [] OTHER             -> Plain(SyntaxError("Expected list or atom", NoPos), chain)

\* evaluate(expr, pos, env); a call nested deeper than the host stack allows aborts
evaluate(expr, pos, chain, lvl) ==
    After(<<LogEntry(expr, pos, chain, lvl)>>,
          IF lvl > MaxDepth THEN Plain(Abort("stack exhausted"), chain)
          ELSE EvaluateArms(expr, chain, lvl))

(***************************************************************************)
(* The inputs of the model                                                 *)
(***************************************************************************)
s_a  == <<"a">>
s_b  == <<"b">>
s_c  == <<"c">>
s_f  == <<"f">>
s_g  == <<"g">>
s_m  == <<"m">>
s_m2 == <<"m", "2">>
s_x  == <<"x">>
s_y  == <<"y">>
s_z  == <<"z">>
n_1  == <<"1">>
n_2  == <<"2">>

\* The source texts read by the tokenizer.
Sources ==
    { Line(<<QUASI_T, LP, s_a, s_b, RP>>) \o Line(<<s_c>>),
      Line(<<QUASI_T, LP, COMMA_T, s_a, SPLICE_T, s_b, s_c, n_1, RP>>),
      Line(<<QUASI_T, s_a, s_b>>),
      Line(<<QUOTE_T, s_a, LP, s_b, QUOTE_T, LP, n_1, RP, RP>>),
      Line(<<LP, s_add, n_1>>) \o Line(<<>>) \o Line(<<n_2, RP>>),
      <<"(", "+", " ", "1", "2", " ", "x", ")", " ", ";", "c", "\n", "(", "a", ")">>,
      Line(<<COMMA_T, s_a, RP, s_true>>),
      Line(<<QUASI_T, COMMA_T, s_a, QUASI_T, SPLICE_T, s_b>>),
      Line(<<LP, s_a, QUOTE_T>>) }

\* how many sources add_input appends
MaxAdded == 1

\* how many top-level expressions are evaluated
MaxSteps == 3

\* how many parameter symbols and values bind is given
MaxSymbs == 3
MaxVals  == 4

Tz == [inputs |-> inputs, tokens |-> tokens, latest_pos |-> latest_pos]

SetTz(tz) ==
    /\ inputs' = tz.inputs
    /\ tokens' = tz.tokens
    /\ latest_pos' = tz.latest_pos

\* the tokenizer and the result a parser or tokenizer call leaves
Returned(r, value) ==
    /\ SetTz(r.tz)
    /\ out' = value

TokIdle ==
    /\ inputs = <<>>
    /\ tokens = <<>>
    /\ latest_pos = <<0, 0>>
    /\ added = 0
    /\ out = None

EvalIdle ==
    /\ env = LinslEnv_default
    /\ env0 = LinslEnv_default
    /\ form = None
    /\ result = None
    /\ log = <<>>
    /\ steps = 0

BindIdle ==
    /\ b_symbs = None
    /\ b_vals = None
    /\ b_res = None

(***************************************************************************)
(* Spec: the tokenizer and the parser over the source texts                *)
(***************************************************************************)
\* Tokenizer::new over no source or one source
Init ==
    /\ \E ins \in {<<>>} \cup {<<s>> : s \in Sources} :
          LET tz == new_tokenizer(ins)
          IN  /\ inputs = tz.inputs
              /\ tokens = tz.tokens
              /\ latest_pos = tz.latest_pos
    /\ added = 0
    /\ out = None
    /\ op = "new"
    /\ EvalIdle
    /\ BindIdle

AddInput ==
    /\ added < MaxAdded
    /\ \E s \in Sources : SetTz(add_input(Tz, s))
    /\ added' = added + 1
    /\ out' = None
    /\ op' = "add_input"
    /\ UNCHANGED <<evalVars, bindVars>>

NextToken ==
    /\ \E r \in {next_token(Tz)} : Returned(r, r.tok)
    /\ op' = "next_token"
    /\ UNCHANGED <<added, evalVars, bindVars>>

Peek ==
    /\ \E r \in {peek(Tz)} : Returned(r, r.tok)
    /\ op' = "peek"
    /\ UNCHANGED <<added, evalVars, bindVars>>

Parse ==
    /\ \E r \in {parse(Tz)} : Returned(r, r.res)
    /\ op' = "parse"
    /\ UNCHANGED <<added, evalVars, bindVars>>

Next == AddInput \/ NextToken \/ Peek \/ Parse

Spec == Init /\ [][Next]_vars


(***************************************************************************)
(* SpecEval: top-level expressions evaluated one after the other in the    *)
(* root environment, as the read-eval-print loop does.                     *)
(***************************************************************************)
Sy(s) == Symbol(s)

Define(name, val) == List(<<Sy(s_define), name, val>>)

If(test, then, else) == List(<<Sy(s_if), test, then, else>>)

Lambda(params, body) == List(<<Sy(s_lambda), List(params), body>>)

MacroForm(params, body) == List(<<Sy(s_macro), List(params), body>>)

Quote(e) == List(<<Sy(s_quote), e>>)

Call(head, args) == List(<<head>> \o args)

DefineForms ==
    { Define(Sy(s_x), Number(1)),
      Define(Sy(s_x), Number(2)),
      List(<<Sy(s_define), Sy(s_x)>>),
      List(<<Sy(s_define), Sy(s_x), Number(1), Number(2)>>),
      Define(Number(1), Number(2)),
      Define(Sy(s_x), Sy(s_z)),
      Define(Sy(s_x), If(Define(Sy(s_y), Number(1)), Number(1), Number(2))),
      Define(Sy(s_y), Sy(s_x)),
      Sy(s_x),
      Sy(s_y) }

IfForms ==
    { If(Bool(TRUE), Define(Sy(s_x), Number(1)), Define(Sy(s_y), Number(2))),
      If(Bool(FALSE), Define(Sy(s_x), Number(1)), Define(Sy(s_y), Number(2))),
      If(Number(1), Define(Sy(s_x), Number(1)), Define(Sy(s_y), Number(2))),
      If(Call(Sy(s_eq), <<Sy(s_x), Number(1)>>), Define(Sy(s_y), Number(3)),
         Define(Sy(s_x), Number(1))),
      If(Sy(s_z), Number(1), Number(2)),
      List(<<Sy(s_if), Bool(TRUE), Number(1)>>) }

ClosureForms ==
    { Define(Sy(s_f), Lambda(<<Sy(s_a)>>, Define(Sy(s_y), Sy(s_a)))),
      Call(Sy(s_f), <<Number(1)>>),
      Call(Sy(s_f), <<Define(Sy(s_x), Number(2))>>),
      Define(Sy(s_g), Lambda(<<Sy(s_a), Sy(s_b)>>,
                             If(Define(Sy(s_y), Sy(s_b)), Number(1), Number(2)))),
      Call(Sy(s_g), <<Number(1), Number(2), Number(3)>>),
      Call(Lambda(<<Sy(s_a), Sy(s_b)>>, Sy(s_a)), <<Number(1)>>) }

MacroForms ==
    { Define(Sy(s_m), MacroForm(<<Sy(s_a)>>, Sy(s_a))),
      Call(Sy(s_m), <<Call(Sy(s_add), <<Number(1), Number(2)>>)>>),
      Call(Sy(s_m), <<Define(Sy(s_x), Number(7))>>),
      Define(Sy(s_m2), MacroForm(<<Sy(s_a), Sy(s_b)>>, Quote(Define(Sy(s_y), Number(5))))),
      Call(Sy(s_m2), <<Define(Sy(s_x), Number(9)), Sy(s_z)>>),
      Call(Lambda(<<Sy(s_a)>>, Call(Sy(s_m), <<Define(Sy(s_y), Sy(s_a))>>)), <<Number(4)>>) }

ShadowForms ==
    { Define(Sy(s_if), Number(5)),
      Define(Sy(s_quote), Sy(s_car)),
      Quote(List(<<Sy(s_x), Sy(s_y)>>)),
      Call(Lambda(<<Sy(s_define)>>, Define(Sy(s_x), Number(3))), <<Number(1)>>),
      Call(MacroForm(<<Sy(s_if)>>, If(Bool(TRUE), Number(1), Number(2))), <<Number(5)>>) }

\* quote with no form and with two forms
QuoteForms ==
    { List(<<Sy(s_quote)>>),
      List(<<Sy(s_quote), Sy(s_x), Sy(s_y)>>) }

\* applications whose argument forms define names and fail
ArgumentForms ==
    { Call(Sy(s_add), <<Define(Sy(s_x), Number(1)), Sy(s_z), Define(Sy(s_y), Number(2))>>),
      Call(Lambda(<<Sy(s_a), Sy(s_b), Sy(s_c)>>, Sy(s_a)),
           <<Define(Sy(s_x), Number(1)), Sy(s_z), Define(Sy(s_y), Number(2))>>),
      Call(Lambda(<<Sy(s_a), Sy(s_b)>>, Sy(s_b)), <<Define(Sy(s_x), Number(1)), Sy(s_x)>>),
      Call(Sy(s_z), <<Define(Sy(s_x), Number(1))>>),
      Call(Sy(s_add), <<Number(1), Number(2)>>) }

\* a closure with the free symbol a, made where a is 1 and called where a is 9,
\* and a closure without parameters applied to an argument
ScopeForms ==
    { Define(Sy(s_a), Number(1)),
      Define(Sy(s_c), Lambda(<<Sy(s_b)>>, Sy(s_a))),
      Call(Lambda(<<Sy(s_a)>>, Call(Sy(s_c), <<Number(5)>>)), <<Number(9)>>),
      Call(Lambda(<<>>, Number(1)), <<Number(2)>>) }

\* macros whose body evaluates to a Closure, a Primitive, a Macro, a Number, a Bool
ValueForms ==
    { Call(MacroForm(<<Sy(s_a)>>, Lambda(<<Sy(s_b)>>, Sy(s_b))), <<Number(1)>>),
      Call(MacroForm(<<Sy(s_a)>>, Sy(s_car)), <<Number(1)>>),
      Call(MacroForm(<<Sy(s_a)>>, MacroForm(<<Sy(s_b)>>, Sy(s_b))), <<Number(1)>>),
      Call(MacroForm(<<Sy(s_a)>>, Number(5)), <<Number(1)>>),
      Call(MacroForm(<<Sy(s_a)>>, Bool(TRUE)), <<Number(1)>>) }

Forms ==
    DefineForms \cup IfForms \cup ClosureForms \cup MacroForms \cup ShadowForms
        \cup QuoteForms \cup ArgumentForms \cup ScopeForms \cup ValueForms

InitEval ==
    /\ TokIdle
    /\ EvalIdle
    /\ BindIdle
    /\ op = "default"

\* the state a top-level evaluate call leaves
Evaluated(f, r) ==
    /\ env0' = env
    /\ form' = f
    /\ result' = r.res
    /\ env' = r.env
    /\ log' = r.log

\* a panic ends the process
Running == IF op = "evaluate" /\ ~result.ok THEN result.err # "Abort" ELSE TRUE

Evaluate ==
    /\ steps < MaxSteps
    /\ Running
    /\ \E f \in Forms : Evaluated(f, evaluate(f, 0, env, 0))
    /\ steps' = steps + 1
    /\ op' = "evaluate"
    /\ UNCHANGED <<tokVars, bindVars>>

NextEval == Evaluate

SpecEval == InitEval /\ [][NextEval]_vars

(***************************************************************************)
(* SpecBind: bind applied to a parameter spec and a list of values         *)
(***************************************************************************)
RECURSIVE SeqsUpTo(_, _)
SeqsUpTo(S, n) ==
    IF n = 0 THEN {<<>>}
    ELSE SeqsUpTo(S, n - 1) \cup
         {Append(q, e) : q \in {p \in SeqsUpTo(S, n - 1) : Len(p) = n - 1}, e \in S}

\* the parameter specs: lists of symbols, a list holding a Number, and a spec that is not a list
SymbSpecs ==
    {List(q) : q \in SeqsUpTo({Sy(s_a), Sy(s_b), Sy(s_c)}, MaxSymbs)}
        \cup {List(<<Sy(s_a), Number(1)>>), Sy(s_a)}

\* the values: (1 2 ... n), a list of mixed values and a value that is not a list
ValSpecs ==
    {List([i \in 1..n |-> Number(i)]) : n \in 0..MaxVals}
        \cup {List(<<Sy(s_x), List(<<Number(1)>>), Bool(TRUE)>>), Number(1)}

InitBind ==
    /\ TokIdle
    /\ EvalIdle
    /\ op = "default"
    /\ b_symbs \in SymbSpecs
    /\ b_vals \in ValSpecs
    /\ b_res = None

\* bind(&param, &evals, &mut new_env) as evaluate_list calls it, on a fresh child scope
Bind ==
    /\ b_res = None
    /\ b_res' = bind(b_symbs, b_vals, LinslEnv_new(env))
    /\ op' = "bind"
    /\ UNCHANGED <<tokVars, evalVars, b_symbs, b_vals>>

NextBind == Bind

SpecBind == InitBind /\ [][NextBind]_vars


(***************************************************************************)
(* The token stream and the grammar the claims about the parser refer to   *)
(***************************************************************************)
Lexemes(toks) == [i \in 1..Len(toks) |-> toks[i][1]]

\* the lexemes the tokenizer makes of a source, line after line
RECURSIVE SourceLexemes(_)
SourceLexemes(src) ==
    IF src = <<>> THEN <<>>
    ELSE Lexemes(ScanLine(Pop(ReadLine(src).line), 0, 0)) \o SourceLexemes(ReadLine(src).rest)

\* the lexemes still to be delivered: the buffered ones, then those of the sources
Pending(tz) ==
    Lexemes(tz.tokens) \o Cat([i \in 1..Len(tz.inputs) |-> SourceLexemes(tz.inputs[i])])

Prefixes == {QUOTE_T, QUASI_T, COMMA_T, SPLICE_T}

\* The index after the complete expression that starts at T[i], 0 when there is none:
\* an atom, a parenthesised list of expressions, or a prefix and an expression.
RECURSIVE ExprEnd(_, _)
RECURSIVE ListEnd(_, _)
ExprEnd(T, i) ==
    IF i > Len(T) \/ i = 0 THEN 0
    ELSE IF T[i] \in Prefixes THEN ExprEnd(T, i + 1)
    ELSE IF T[i] = LP THEN ListEnd(T, i + 1)
    ELSE IF T[i] = RP THEN 0
    ELSE i + 1

\* The index after the ) that closes the list whose elements start at T[i], or 0
ListEnd(T, i) ==
    IF i > Len(T) \/ i = 0 THEN 0
    ELSE IF T[i] = RP THEN i + 1
    ELSE ListEnd(T, ExprEnd(T, i))

\* The expression written by the tokens from T[i] on, free of quasiquotation:
\* an atom, a list, or 'E for (quote E)
RECURSIVE Written(_, _)
RECURSIVE WrittenElems(_, _)
Written(T, i) ==
    IF T[i] = QUOTE_T THEN List(<<Symbol(s_quote), Written(T, i + 1)>>)
    ELSE IF T[i] = LP THEN List(WrittenElems(T, i + 1))
    ELSE parse_atom(T[i])

WrittenElems(T, i) ==
    IF T[i] = RP THEN <<>>
    ELSE <<Written(T, i)>> \o WrittenElems(T, ExprEnd(T, i))

\* The rewriting of the elements of a quasiquoted list from T[i] on:
\* ,x is (list x), ,@x is x, any other x is (list (quote x))
RECURSIVE Rewritten(_, _)
Rewritten(T, i) ==
    IF T[i] = RP THEN <<>>
    ELSE << CASE T[i] = COMMA_T  -> List(<<Symbol(s_list), Written(T, i + 1)>>)
              [] T[i] = SPLICE_T -> Written(T, i + 1)
              [] OTHER           ->
                   List(<<Symbol(s_list), List(<<Symbol(s_quote), Written(T, i)>>)>>) >>
         \o Rewritten(T, ExprEnd(T, i))

\* the indices at which the elements of the list from T[i] on start
RECURSIVE ElemStarts(_, _)
ElemStarts(T, i) ==
    IF T[i] = RP THEN {} ELSE {i} \cup ElemStarts(T, ExprEnd(T, i))

\* T starts with a complete quasiquoted list whose elements are x, ,x or ,@x with
\* every x free of quasiquotation
QuasiList(T) ==
    /\ Len(T) >= 2
    /\ T[1] = QUASI_T
    /\ T[2] = LP
    /\ ExprEnd(T, 1) # 0
    /\ \A i \in 3..(ExprEnd(T, 1) - 1) :
          /\ T[i] # QUASI_T
          /\ T[i] \in {COMMA_T, SPLICE_T}
                => i \in ElemStarts(T, 3) /\ T[i + 1] \notin {COMMA_T, SPLICE_T}

\* the parse step: parse was called and returned
ParseStep == op' = "parse"

(***************************************************************************)
(* C1.  For every quasiquoted list, parse returns the list whose head is   *)
(* the symbol append, followed by one rewritten element for each element   *)
(* written, in source order: no element is skipped or merged with its      *)
(* neighbour.  (Stated as the claim has it; the parser does not do this.)  *)
(***************************************************************************)
C1_QuasiquotedListRewritesEveryElement ==
    [][(ParseStep /\ QuasiList(Pending(Tz)))
          => /\ out'.ok
             /\ out'.v = List(<<Symbol(s_append)>> \o Rewritten(Pending(Tz), 3))]_vars

(***************************************************************************)
(* C2.  Every successful call of parse consumes exactly the tokens of one  *)
(* complete expression: the lexemes pending after it are those pending     *)
(* before it without that expression.  (Stated as the claim has it; the    *)
(* parser does not do this.)                                               *)
(***************************************************************************)
C2_ParseConsumesOneExpression ==
    [][(ParseStep /\ out'.ok)
          => /\ ExprEnd(Pending(Tz), 1) # 0
             /\ Pending(Tz)' = Drop(Pending(Tz), ExprEnd(Pending(Tz), 1) - 1)]_vars


(***************************************************************************)
(* What the last step of SpecEval shows                                    *)
(***************************************************************************)
\* a top-level evaluate call has been made
Done == op = "evaluate"

\* the last form evaluated is a non-empty list
ListForm == Done /\ form.t = "List" /\ form.xs # <<>>

\* the calls evaluate made directly for the top-level form, in order
IsDirect(entry) == entry.lvl = 1

Direct == SelectSeq(log, IsDirect)

\* the evaluation of the head of the last form, as evaluate_list makes it
HeadEval == evaluate(Head(form.xs), 0, env0, 1)

\* the last form applied a value of variant t
Applied(t) ==
    /\ ListForm
    /\ ~IsBuiltInForm(Head(form.xs), env0)
    /\ HeadEval.res.ok
    /\ HeadEval.res.v.t = t

\* the last form is the special form named s
SpecialForm(s) == ListForm /\ Head(form.xs) = Symbol(s)

IsError(res, kind) == ~res.ok /\ res.err = kind

\* the current scope of an environment
Inner(chain) == chain[Len(chain)]

(***************************************************************************)
(* C3.  In the environment built by LinslEnv::default, before any user     *)
(* code runs, every name of the primitive table is bound to a Primitive.   *)
(* (Stated as the claim has it; default() binds eight of the twelve.)      *)
(***************************************************************************)
PrimitiveTable ==
    {s_add, s_mul, s_neg, s_inv, s_eq, s_gr, s_car, s_cdr, s_list, s_append, s_empty, s_eqt}

C3_DefaultBindsPrimitiveTable ==
    steps = 0 =>
        \A s \in PrimitiveTable :
            /\ evaluate(Symbol(s), 0, env, 0).res.ok
            /\ evaluate(Symbol(s), 0, env, 0).res.v.t = "Primitive"

(***************************************************************************)
(* C4.  Applying a Macro evaluates no argument form while binding it: the  *)
(* calls made for the application are the evaluation of the head, then     *)
(* one evaluation of the macro body in a new child scope that binds the    *)
(* parameters to the unevaluated argument forms, then one evaluation of    *)
(* the expansion in the caller's own scope, whose result and environment   *)
(* are those of the application.                                           *)
(***************************************************************************)
MacroScope == bind(HeadEval.res.v.ps, List(Tail(form.xs)), LinslEnv_new(HeadEval.env))

MacroExpansion == evaluate(HeadEval.res.v.bd, 2, MacroScope.v, 1)

ExpansionEval == evaluate(MacroExpansion.res.v, 1, HeadEval.env, 1)

C4_MacroBindsFormsUnevaluated ==
    (Applied("Macro") /\ MacroScope.ok) =>
        /\ Len(Direct) >= 2
        /\ Direct[1] = LogEntry(Head(form.xs), 0, env0, 1)
        /\ Direct[2] = LogEntry(HeadEval.res.v.bd, 2, MacroScope.v, 1)
        /\ Direct[2].scope = Len(env0) + 1
        /\ IF MacroExpansion.res.ok
           THEN /\ Len(Direct) = 3
                /\ Direct[3] = LogEntry(MacroExpansion.res.v, 1, env0, 1)
                /\ result = ExpansionEval.res
                /\ env = ExpansionEval.env
           ELSE /\ Len(Direct) = 2
                /\ result = MacroExpansion.res
                /\ env = HeadEval.env

\* a macro was applied to a define form, and the define of the expansion is now
\* bound in the caller's scope
C4_Witness ==
    /\ Applied("Macro")
    /\ MacroScope.ok
    /\ result.ok
    /\ Len(form.xs) = 2
    /\ form.xs[2].t = "List"
    /\ Head(form.xs[2].xs) = Symbol(s_define)
    /\ MacroExpansion.res.v = form.xs[2]
    /\ env # env0

(***************************************************************************)
(* C5.  After a Closure application returns, with a value or an error,     *)
(* the caller's environment holds exactly the bindings it held once the    *)
(* argument forms had been evaluated: the parameters and the defines of    *)
(* the body lived in the child scope of the call only.                     *)
(***************************************************************************)
ArgsEval == evaluate_forms(Tail(form.xs), 0, HeadEval.env, 1)

\* the same application made by a caller whose scope is a child of the root scope
NestedCaller == LinslEnv_new(env0)

NestedArgsEval ==
    evaluate_forms(Tail(form.xs), 0, evaluate(Head(form.xs), 0, NestedCaller, 1).env, 1)

C5_ClosureCallLeavesCallerScope ==
    Applied("Closure") =>
        /\ env = ArgsEval.env
        /\ evaluate(form, 0, NestedCaller, 0).env = NestedArgsEval.env

\* a closure was applied and its body ran a define in the child scope
C5_Witness ==
    /\ Applied("Closure")
    /\ result.ok
    /\ env = env0
    /\ \E i \in 1..Len(log) :
          /\ log[i].scope = Len(env0) + 1
          /\ log[i].e.t = "List"
          /\ log[i].e.xs # <<>>
          /\ Head(log[i].e.xs) = Symbol(s_define)

(***************************************************************************)
(* What the step of SpecBind shows                                         *)
(***************************************************************************)
Bound == op = "bind"

\* bind was given k >= 1 parameter symbols and a list of n values
BoundSymbols ==
    /\ Bound
    /\ b_symbs.t = "List"
    /\ \A i \in 1..Len(b_symbs.xs) : b_symbs.xs[i].t = "Symbol"
    /\ Len(b_symbs.xs) >= 1
    /\ b_vals.t = "List"

K == Len(b_symbs.xs)

N == Len(b_vals.xs)

\* the value the claim gives parameter i
ClaimedValue(i) ==
    IF i = K /\ K < N THEN List(SubSeq(b_vals.xs, K, N)) ELSE b_vals.xs[i]

\* no later parameter has the name of parameter i
LastOccurrence(i) == \A j \in (i + 1)..K : b_symbs.xs[j].s # b_symbs.xs[i].s

(***************************************************************************)
(* C6.  bind with k >= 1 parameter symbols and n values: if k > n it       *)
(* returns a SyntaxError; otherwise it binds, in parameter order, si to vi *)
(* for every i, except that for k < n the last symbol sk is bound to the   *)
(* List (vk ... vn); it binds no other name.  The bindings being made in   *)
(* order, a name written twice holds the value of its last occurrence.     *)
(***************************************************************************)
C6_BindArityAndRest ==
    BoundSymbols =>
        IF K > N THEN IsError(b_res, "SyntaxError")
        ELSE /\ b_res.ok
             /\ DOMAIN Inner(b_res.v) = {b_symbs.xs[i].s : i \in 1..K}
             /\ \A i \in 1..K :
                   LastOccurrence(i) => Inner(b_res.v)[b_symbs.xs[i].s] = ClaimedValue(i)

\* three symbols bound to four values: the example of the doc comment of bind
C6_Witness ==
    /\ BoundSymbols
    /\ K = 3
    /\ N = 4
    /\ b_res.ok
    /\ Inner(b_res.v)[b_symbs.xs[3].s] = List(<<Number(3), Number(4)>>)

(***************************************************************************)
(* C7.  As claimed: applying parameters (a b) to the values (1 2 3 4)      *)
(* binds a to 1 and the last parameter b to the list (3 4).                *)
(***************************************************************************)
AB1234 ==
    /\ Bound
    /\ b_symbs = List(<<Symbol(s_a), Symbol(s_b)>>)
    /\ b_vals = List(<<Number(1), Number(2), Number(3), Number(4)>>)

C7_LastParameterAbsorbs34 ==
    AB1234 =>
        /\ b_res.ok
        /\ Inner(b_res.v)[s_a] = Number(1)
        /\ Inner(b_res.v)[s_b] = List(<<Number(3), Number(4)>>)

(***************************************************************************)
(* C7, amended.  Applying parameters (a b) to the values (1 2 3 4) binds   *)
(* a to 1 and the last parameter b to the list (2 3 4): b absorbs the      *)
(* values from its own position on.                                        *)
(***************************************************************************)
C7_LastParameterAbsorbs234 ==
    AB1234 =>
        /\ b_res.ok
        /\ Inner(b_res.v)[s_a] = Number(1)
        /\ Inner(b_res.v)[s_b] = List(<<Number(2), Number(3), Number(4)>>)

C7_Witness == AB1234 /\ b_res.ok /\ DOMAIN Inner(b_res.v) = {s_a, s_b}

(***************************************************************************)
(* C8.  define with exactly two forms whose first is a Symbol evaluates    *)
(* the second form in the current scope, binds the name to that value in   *)
(* the current scope only and returns the name, so that evaluating the     *)
(* name afterwards yields the value; if evaluating the value form fails    *)
(* the define adds no binding; with any other number of forms or a         *)
(* non-Symbol first form it returns a SyntaxError and leaves the           *)
(* environment unchanged.                                                  *)
(***************************************************************************)
DefineForms2 == Len(form.xs) = 3 /\ form.xs[2].t = "Symbol"

DefineVal == evaluate(form.xs[3], 2, env0, 1)

\* the same define made in a child of the root scope
NestedDefineVal == evaluate(form.xs[3], 2, LinslEnv_new(env0), 1)

\* chain2 is chain1 with name bound to value in the current scope and nothing else changed
BindsOnlyInner(chain1, chain2, name, value) ==
    /\ Len(chain2) = Len(chain1)
    /\ \A i \in 1..(Len(chain1) - 1) : chain2[i] = chain1[i]
    /\ DOMAIN Inner(chain2) = DOMAIN Inner(chain1) \cup {name}
    /\ \A k \in DOMAIN Inner(chain2) :
          Inner(chain2)[k] = IF k = name THEN value ELSE Inner(chain1)[k]

C8_DefineBindsInCurrentScope ==
    SpecialForm(s_define) =>
        IF DefineForms2
        THEN /\ log = <<LogEntry(form, 0, env0, 0)>> \o DefineVal.log
             /\ IF DefineVal.res.ok
                THEN /\ result = Ok(form.xs[2])
                     /\ BindsOnlyInner(DefineVal.env, env, form.xs[2].s, DefineVal.res.v)
                     /\ evaluate(form.xs[2], 0, env, 0).res = Ok(DefineVal.res.v)
                     /\ NestedDefineVal.res.ok
                     /\ BindsOnlyInner(NestedDefineVal.env,
                                       evaluate(form, 0, LinslEnv_new(env0), 0).env,
                                       form.xs[2].s, NestedDefineVal.res.v)
                ELSE /\ result = DefineVal.res
                     /\ env = DefineVal.env
        ELSE /\ IsError(result, "SyntaxError")
             /\ env = env0
             /\ Len(log) = 1

\* a define gave a name that was bound already a new value
C8_Witness ==
    /\ SpecialForm(s_define)
    /\ DefineForms2
    /\ result.ok
    /\ env_get(form.xs[2].s, env0).some
    /\ env_get(form.xs[2].s, env0) # env_get(form.xs[2].s, env)

(***************************************************************************)
(* C9.  For an if with exactly three forms the test form is evaluated      *)
(* once; when it yields a Bool exactly one branch is evaluated, the second *)
(* form for true and the third for false, and the result and the           *)
(* environment are those of that branch; when it yields another value the  *)
(* result is a SyntaxError and no branch is evaluated.                     *)
(***************************************************************************)
IfForms3 == Len(form.xs) = 4

IfTestEval == evaluate(form.xs[2], 1, env0, 1)

\* the index in the if form, and the pos argument, of the branch for b
Taken(b) == IF b THEN 2 ELSE 3

TakenEval(b) == evaluate(form.xs[Taken(b) + 1], Taken(b), IfTestEval.env, 1)

C9_IfEvaluatesOneBranch ==
    (SpecialForm(s_if) /\ IfForms3) =>
        /\ Len(Direct) >= 1
        /\ Direct[1] = LogEntry(form.xs[2], 1, env0, 1)
        /\ IF IfTestEval.res.ok /\ IfTestEval.res.v.t = "Bool"
           THEN /\ Len(Direct) = 2
                /\ Direct[2] = LogEntry(form.xs[Taken(IfTestEval.res.v.b) + 1],
                                        Taken(IfTestEval.res.v.b), IfTestEval.env, 1)
                /\ result = TakenEval(IfTestEval.res.v.b).res
                /\ env = TakenEval(IfTestEval.res.v.b).env
           ELSE /\ Len(Direct) = 1
                /\ env = IfTestEval.env
                /\ IF IfTestEval.res.ok THEN IsError(result, "SyntaxError")
                   ELSE result = IfTestEval.res

\* the test was false: the define of the third form happened, that of the second did not
C9_Witness ==
    /\ SpecialForm(s_if)
    /\ IfForms3
    /\ form.xs[2] = Bool(FALSE)
    /\ result = Ok(Symbol(s_y))
    /\ s_y \in DOMAIN Inner(env)
    /\ s_x \notin DOMAIN Inner(env)

(***************************************************************************)
(* C10.  define, if, lambda, macro and quote cannot be shadowed: also      *)
(* where such a name is bound, a list headed by it is handled by the       *)
(* special-form handler on the unevaluated remaining elements, and the     *)
(* head is never evaluated, at the top level or in a nested call.          *)
(***************************************************************************)
HeadIsBuiltIn(e) == e.t = "List" /\ e.xs # <<>> /\ e.xs[1].t = "Symbol" /\ e.xs[1].s \in BuiltInForms

\* the call logged at i + 1 is the evaluation of the head of the list logged at i
EvaluatesHead(i) ==
    /\ i < Len(log)
    /\ log[i + 1].lvl = log[i].lvl + 1
    /\ log[i + 1].pos = 0

C10_SpecialFormsNotShadowed ==
    Done =>
        /\ HeadIsBuiltIn(form) =>
              [res |-> result, env |-> env, log |-> Tail(log)]
                  = evaluate_built_in_form(Head(form.xs), Tail(form.xs), env0, 0)
        /\ \A i \in 1..Len(log) : HeadIsBuiltIn(log[i].e) => ~EvaluatesHead(i)

\* a special form was evaluated where its name is bound: at the top level after a
\* define of the name, or in a closure that has the name as a parameter
C10_Witness ==
    /\ Done
    /\ result.ok
    /\ \/ HeadIsBuiltIn(form) /\ env_get(Head(form.xs).s, env0).some
       \/ \E i \in 1..Len(log) :
             /\ HeadIsBuiltIn(log[i].e)
             /\ log[i].scope = 2
             /\ env_get(log[i].e.xs[1].s, env0) = None
             /\ form = Call(Lambda(<<log[i].e.xs[1]>>, log[i].e), <<Number(1)>>)

\* the tokenizer a step leaves
TzNext == [inputs |-> inputs', tokens |-> tokens', latest_pos |-> latest_pos']

C12_NoneOnlyWhenExhausted ==
    (op \in {"next_token", "peek"} /\ ~out.some) => Pending(Tz) = <<>>

(***************************************************************************)
(* C13.  peek does not consume: two consecutive peek calls return the      *)
(* same, the next_token call that follows a peek returns what the peek     *)
(* returned, and a peek on a non-empty token buffer leaves the length of   *)
(* the buffer unchanged.  (Stated as the claim has it; a peek that reads a *)
(* line without tokens answers None and the next call a lexeme.)           *)
(***************************************************************************)
C13_PeekDoesNotConsume ==
    [][/\ (op = "peek" /\ op' \in {"peek", "next_token"}) => out' = out
       /\ (op' = "peek" /\ tokens # <<>>) => Len(tokens') = Len(tokens)]_vars

(***************************************************************************)
(* SpecLine: tokenize_line applied to one line of text, as Tokenizer::new  *)
(* applies it to the first line of its first source.                       *)
(***************************************************************************)
\* the characters the lines are written with, and how long a line may be
LineChars == {"(", ")", "'", BQ, ",", "@", ";", " ", "a"}

MaxLine == 4

\* the source ends with a line terminator
Terminated(src) == src # <<>> /\ src[Len(src)] = "\n"

\* the characters of the one line of src other than the line terminator
LineText(src) == IF Terminated(src) THEN Pop(src) ELSE src

\* the Tokenizer as Tokenizer::new builds it, before it calls tokenize_line: its
\* source is one line, with the newline at its end or, the shorter ones, without
InitLine ==
    /\ inputs \in {<<l \o <<"\n">>>> : l \in SeqsUpTo(LineChars, MaxLine)}
                     \cup {<<l>> : l \in SeqsUpTo(LineChars, MaxLine - 1)}
    /\ tokens = <<>>
    /\ latest_pos = <<0, 0>>
    /\ added = 0
    /\ out = None
    /\ op = "default"
    /\ EvalIdle
    /\ BindIdle

TokenizeLine ==
    /\ op = "default"
    /\ \E r \in {tokenize_line(Tz)} : Returned(r, r.ret)
    /\ op' = "tokenize_line"
    /\ UNCHANGED <<added, evalVars, bindVars>>

NextLine == TokenizeLine

SpecLine == InitLine /\ [][NextLine]_vars

\* the length of the maximal run of characters at the start of s that are
\* neither whitespace nor a delimiter
RECURSIVE Run(_)
Run(s) ==
    IF s = <<>> THEN 0
    ELSE IF Head(s) \in {" ", "\t", "(", ")", "'", BQ, ",", ";"} THEN 0
    ELSE 1 + Run(Tail(s))

\* the lexemes of a line as the token grammar has them
RECURSIVE LineTokens(_)
LineTokens(s) ==
    IF s = <<>> THEN <<>>
    ELSE IF Head(s) = ";" THEN <<>>
    ELSE IF Head(s) \in {" ", "\t"} THEN LineTokens(Tail(s))
    ELSE IF Len(s) >= 2 /\ s[1] = "," /\ s[2] = "@" THEN <<SPLICE_T>> \o LineTokens(Drop(s, 2))
    ELSE IF Head(s) \in {"(", ")", "'", BQ, ","} THEN << <<Head(s)>> >> \o LineTokens(Tail(s))
    ELSE <<Take(s, Run(s))>> \o LineTokens(Drop(s, Run(s)))

\* the step that tokenizes the line
TokenizeStep == op' = "tokenize_line"

OpenList(T) ==
    /\ T # <<>>
    /\ T[1] = LP
    /\ \A n \in 1..Len(T) : Matches(Take(T, n), LP) > Matches(Take(T, n), RP)

(***************************************************************************)
(* C15.  For a unit with unmatched parentheses parse returns no            *)
(* expression but a SyntaxError: a ) with no opener fails with a           *)
(* SyntaxError at that token, and a ( whose list is still open when the    *)
(* input ends fails with a SyntaxError whatever precedes the end of the    *)
(* input.  (Stated as the claim has it; a list left open after a quote     *)
(* mark fails with an InternalError.)                                      *)
(***************************************************************************)
C15_UnmatchedParensSyntaxError ==
    [][ParseStep =>
          /\ (Pending(Tz) # <<>> /\ Head(Pending(Tz)) = RP)
                => IsError(out', "SyntaxError") /\ out'.pos = latest_pos'
          /\ OpenList(Pending(Tz)) => IsError(out', "SyntaxError")]_vars

(***************************************************************************)
(* C16.  Before any token of a unit of input is produced its ( and ) are   *)
(* counted, and when the counts differ the unit fails with                 *)
(* UnbalancedParens(opening, closing) and none of its tokens is delivered. *)
(* (Stated as the claim has it; tokenize_line makes no such check.)        *)
(***************************************************************************)
C16_UnbalancedLineDeliversNothing ==
    [][(TokenizeStep /\ check_parens(LineText(inputs[1])).some) =>
          /\ tokens' = <<>>
          /\ out' = UnbalancedParens(check_parens(LineText(inputs[1])).v[1],
                                     check_parens(LineText(inputs[1])).v[2])]_vars

\* the pending lexemes start with a quasiquote mark and a non-list atom
QuasiAtom(T) ==
    /\ Len(T) >= 2
    /\ T[1] = QUASI_T
    /\ T[2] \notin Prefixes \cup {LP, RP}

(***************************************************************************)
(* C17.  Parsing BQ x, x a non-list atom, yields the expression parsing    *)
(* 'x yields, (quote x), and consumes exactly the two tokens BQ and x.     *)
(* (Stated as the claim has it; the parser quotes what follows x.)         *)
(***************************************************************************)
C17_QuasiquotedAtomIsQuoted ==
    [][(ParseStep /\ QuasiAtom(Pending(Tz))) =>
          /\ out' = Ok(List(<<Symbol(s_quote), parse_atom(Pending(Tz)[2])>>))
          /\ out' = parse_quote(new_tokenizer(<<Line(<<Pending(Tz)[2]>>)>>)).res
          /\ Pending(TzNext) = Drop(Pending(Tz), 2)]_vars

(***************************************************************************)
(* C18.  quote takes exactly one form: (quote E) returns E unevaluated,    *)
(* and a quote with no form or with two or more forms returns a            *)
(* SyntaxError.  (Stated as the claim has it; quote returns its first form *)
(* however many follow.)                                                   *)
(***************************************************************************)
C18_QuoteTakesOneForm ==
    SpecialForm(s_quote) =>
        IF Len(form.xs) = 2 THEN result = Ok(form.xs[2]) /\ env = env0
        ELSE IsError(result, "SyntaxError")

(***************************************************************************)
(* C19.  No user input causes an InternalError: a failure of parse on any  *)
(* token sequence, input that ends in the middle of an expression          *)
(* included, is a SyntaxError or UnbalancedParens.  (Stated as the claim   *)
(* has it; parse answers the end of input with an InternalError.)          *)
(***************************************************************************)
C19_NoInternalErrorFromInput ==
    op = "parse" => ~IsError(out, "InternalError")

\* what evaluate_list applies: the argument forms, the pos each is evaluated with,
\* and the evaluation of each in the environment the one before it left
Arg(j) == form.xs[j + 1]

ArgPos(j) == IF HeadEval.res.v.t = "Closure" THEN j - 1 ELSE j

RECURSIVE ArgEnv(_)
RECURSIVE ArgEval(_)
ArgEnv(j) == IF j = 1 THEN HeadEval.env ELSE ArgEval(j - 1).env

ArgEval(j) == evaluate(Arg(j), ArgPos(j), ArgEnv(j), 1)

\* the argument form that fails first, if any
Failing ==
    {j \in 1..(Len(form.xs) - 1) :
        /\ ~ArgEval(j).res.ok
        /\ \A i \in 1..(j - 1) : ArgEval(i).res.ok}

\* how many argument forms are evaluated
Reached == IF Failing = {} THEN Len(form.xs) - 1 ELSE CHOOSE j \in Failing : TRUE

(***************************************************************************)
(* C20.  When a list is applied the head is evaluated first and then the   *)
(* argument forms from left to right in the caller's scope, each in the    *)
(* environment the one before it left; at the first error no later         *)
(* argument form is evaluated and neither body nor primitive is run, that  *)
(* error is the result of the form, and the environment is the one the     *)
(* failing evaluation left, with every define made before the error.       *)
(***************************************************************************)
C20_ArgumentsLeftToRight ==
    (ListForm /\ ~IsBuiltInForm(Head(form.xs), env0)) =>
        /\ Len(Direct) >= 1
        /\ Direct[1] = LogEntry(Head(form.xs), 0, env0, 1)
        /\ IF ~HeadEval.res.ok
           THEN /\ Len(Direct) = 1
                /\ result = HeadEval.res
                /\ env = HeadEval.env
           ELSE HeadEval.res.v.t \in {"Closure", "Primitive"} =>
                /\ Len(Direct) >= 1 + Reached
                /\ \A j \in 1..Reached :
                      Direct[j + 1] = LogEntry(Arg(j), ArgPos(j), env0, 1)
                /\ \A j \in Failing :
                      /\ Len(Direct) = 1 + j
                      /\ result = ArgEval(j).res
                      /\ env = ArgEval(j).env
                /\ Failing = {} => env = ArgEnv(Len(form.xs))

\* the second of three argument forms failed: the define of the first is bound,
\* the define of the third was not made
C20_Witness ==
    /\ ListForm
    /\ ~IsBuiltInForm(Head(form.xs), env0)
    /\ HeadEval.res.ok
    /\ HeadEval.res.v.t \in {"Closure", "Primitive"}
    /\ Len(form.xs) = 4
    /\ Failing = {2}
    /\ ~result.ok
    /\ s_x \notin DOMAIN Inner(env0)
    /\ s_x \in DOMAIN Inner(env)
    /\ s_y \notin DOMAIN Inner(env)

\* the child scope of the last closure application: the parameters bound to the
\* argument values in a new scope under the environment of the call site
CallScope ==
    bind(HeadEval.res.v.ps, List(ArgsEval.res.v), LinslEnv_new(ArgsEval.env))

\* the closure (lambda (b) a), whose body is the free symbol a
FreeA == Closure(List(<<Symbol(s_b)>>), Symbol(s_a))

\* the form ((lambda (a) (c 5)) 9): c is called where the parameter a is 9
CallsC == Call(Lambda(<<Sy(s_a)>>, Call(Sy(s_c), <<Number(5)>>)), <<Number(9)>>)

(***************************************************************************)
(* C21.  A Closure captures no environment when it is created: at each     *)
(* application its body is evaluated in a fresh child of the scope active  *)
(* at the call site, so a free symbol of the body resolves to the binding  *)
(* visible at the call site at the time of the call, a parameter of the    *)
(* calling closure for one, not to the binding visible where the lambda    *)
(* was evaluated.                                                          *)
(***************************************************************************)
C21_ClosureBodyRunsAtCallSite ==
    /\ (Applied("Closure") /\ ArgsEval.res.ok /\ CallScope.ok) =>
          /\ Direct[Len(Direct)] = LogEntry(HeadEval.res.v.bd, 2, CallScope.v, 1)
          /\ Len(CallScope.v) = Len(env0) + 1
          /\ Outer(CallScope.v) = ArgsEval.env
          /\ result = evaluate(HeadEval.res.v.bd, 2, CallScope.v, 1).res
    /\ (Done /\ form = CallsC /\ env_get(s_c, env0) = Some(FreeA)) =>
          /\ result = Ok(Number(9))
          /\ \E i \in 1..Len(log) : log[i] = [e |-> Symbol(s_a), pos |-> 2, lvl |-> 2, scope |-> 3]

\* c was made at the top level where a is 1 and called inside a closure whose
\* parameter a is 9: its body a gave 9
C21_Witness ==
    /\ Done
    /\ form = CallsC
    /\ env_get(s_c, env0) = Some(FreeA)
    /\ env_get(s_a, env0) = Some(Number(1))
    /\ result = Ok(Number(9))

\* environments with scopes under the root scope of env: x bound in a child, in a
\* grandchild over an empty child, and x in a child with y in its child
Shadow(k, v) == Insert(EmptyScope, k, v)

Chains ==
    { env,
      <<env[1], Shadow(s_x, Number(42))>>,
      <<env[1], EmptyScope, Shadow(s_x, Number(42))>>,
      <<env[1], Shadow(s_x, Number(42)), Shadow(s_y, Number(43))>>,
      <<env[1], Shadow(s_x, Number(42)), Shadow(s_x, Number(43))>> }

LookedUp == {s_x, s_y, s_z, s_a, s_add}

\* the scopes of chain that bind s
Binders(s, chain) == {i \in 1..Len(chain) : s \in DOMAIN chain[i]}

\* the innermost of them
Innermost(s, chain) == CHOOSE i \in Binders(s, chain) : \A j \in Binders(s, chain) : j <= i

(***************************************************************************)
(* C22.  Looking up a symbol returns the binding of the innermost scope    *)
(* on the chain from the current scope to the root that binds it, and      *)
(* 'not found' only when no scope on the chain binds it; evaluating an     *)
(* unbound Symbol yields a SyntaxError, a bound one its value.             *)
(***************************************************************************)
C22_LookupInnermostBinding ==
    \A chain \in Chains :
        \A s \in LookedUp :
            IF Binders(s, chain) = {}
            THEN /\ env_get(s, chain) = None
                 /\ IsError(evaluate(Symbol(s), 0, chain, 0).res, "SyntaxError")
            ELSE /\ env_get(s, chain) = Some(chain[Innermost(s, chain)][s])
                 /\ evaluate(Symbol(s), 0, chain, 0).res = Ok(chain[Innermost(s, chain)][s])

\* x was defined at the top level: under a child scope that binds x to 42 the
\* lookup of x gives 42, that of y the root's binding or none, that of z none
C22_Witness ==
    /\ Done
    /\ s_x \in DOMAIN env[1]
    /\ env[1][s_x] # Number(42)
    /\ env_get(s_x, <<env[1], Shadow(s_x, Number(42))>>) = Some(Number(42))
    /\ env_get(s_x, <<env[1], EmptyScope>>) = Some(env[1][s_x])
    /\ env_get(s_z, <<env[1], Shadow(s_x, Number(42))>>) = None

(***************************************************************************)
(* C23.  The position get_pos reports after a next_token call carries the  *)
(* line number of the line the token came from within its source, one more *)
(* for each successive line: when the only source is read and next_token   *)
(* has to read a further line for its token, the line number reported is   *)
(* greater than the one reported before.  (Stated as the claim has it; the *)
(* tokenizer gives every line the number 0.)                               *)
(***************************************************************************)
C23_LineNumberIncreases ==
    [][(op' = "next_token" /\ out'.some /\ tokens = <<>> /\ added = 0)
          => get_pos(TzNext)[1] > get_pos(Tz)[1]]_vars

\* the last form applied a Closure or Macro without parameters to arguments
NoParameters ==
    /\ Applied("Closure") \/ Applied("Macro")
    /\ HeadEval.res.v.ps = List(<<>>)
    /\ Len(form.xs) >= 2
    /\ HeadEval.res.v.t = "Closure" => ArgsEval.res.ok

(***************************************************************************)
(* C24.  Applying a Closure or Macro whose parameter list is empty to one  *)
(* or more arguments is rejected with a SyntaxError; the index arithmetic  *)
(* of bind never underflows and no evaluation aborts instead of returning  *)
(* a value or an error.  (Stated as the claim has it; bind computes i - 1  *)
(* with i = 0 and the process aborts.)                                     *)
(***************************************************************************)
C24_EmptyParameterListRejected ==
    /\ NoParameters => IsError(result, "SyntaxError")
    /\ Done => ~IsError(result, "Abort")

(***************************************************************************)
(* C25.  The tokens delivered for a source do not depend on whether its    *)
(* final line ends with a newline: every character of the line other than  *)
(* the line terminator takes part in tokenization, so the line without the *)
(* newline yields the tokens it yields with one.  (Stated as the claim has *)
(* it; get_line drops the last character of a line without a newline.)     *)
(***************************************************************************)
C25_TrailingNewlineOptional ==
    [][TokenizeStep =>
          Lexemes(tokens')
              = Lexemes(new_tokenizer(<<LineText(inputs[1]) \o <<"\n">>>>).tokens)]_vars

\* function values, as evaluate may be handed them
FunctionValues ==
    { Closure(List(<<Symbol(s_b)>>), Symbol(s_b)),
      Macro(List(<<Symbol(s_b)>>), Symbol(s_b)),
      Primitive("car") }

(***************************************************************************)
(* C26.  Function values are not evaluable expressions: evaluate applied   *)
(* to a Closure, Macro or Primitive value returns a SyntaxError, so a      *)
(* macro application whose body evaluates to such a value fails with a     *)
(* SyntaxError in its second evaluation pass instead of returning the      *)
(* value, while a Bool or Number expansion evaluates to itself.            *)
(***************************************************************************)
C26_FunctionValuesNotEvaluable ==
    /\ \A v \in FunctionValues :
          /\ IsError(evaluate(v, 0, env, 0).res, "SyntaxError")
          /\ evaluate(v, 0, env, 0).env = env
    /\ (Applied("Macro") /\ MacroScope.ok /\ MacroExpansion.res.ok) =>
          /\ MacroExpansion.res.v.t \in {"Closure", "Macro", "Primitive"} =>
                /\ IsError(result, "SyntaxError")
                /\ Len(Direct) = 3
                /\ Direct[3] = LogEntry(MacroExpansion.res.v, 1, env0, 1)
                /\ env = HeadEval.env
          /\ MacroExpansion.res.v.t \in {"Bool", "Number"} =>
                result = Ok(MacroExpansion.res.v)

\* a macro whose body evaluated to a Closure was applied: the second pass was
\* handed the Closure and failed
C26_Witness ==
    /\ Applied("Macro")
    /\ MacroScope.ok
    /\ MacroExpansion.res.ok
    /\ MacroExpansion.res.v.t = "Closure"
    /\ IsError(result, "SyntaxError")
    /\ result.msg = "Expected list or atom"

====
